---------------------------- MODULE Spec2Model ----------------------------
(***************************************************************************)
(* Model of the tool-call layer of src/mcp-server.js                       *)
(* (class PaperlessAIMCPServer): the CallTool dispatcher and the two       *)
(* handlers searchDocuments and getDocument, run by concurrent tool calls  *)
(* on one event loop.  Every await of the handlers is a suspension point;  *)
(* each action below is one run of a handler between two suspensions.      *)
(* The two collaborators (ragService, paperlessService) are not part of    *)
(* the file: their answers are inputs, drawn from the sets below.          *)
(***************************************************************************)
EXTENDS Integers, Sequences, FiniteSets, TLC

VARIABLES
    env,         \* process.env.RAG_SERVICE_ENABLED
    pc,          \* pc[c]: where tool call c is suspended
    tool,        \* tool[c]: request.params.name
    args,        \* args[c]: request.params.arguments
    searchReq,   \* searchReq[c]: the promise of ragService.search
    searchCalls, \* searchCalls[c]: how often call c invoked ragService.search
    content,     \* content[c]: the promise of paperlessService.getDocumentContent
    metadata,    \* metadata[c]: the promise of paperlessService.getDocument
    tagReq,      \* tagReq[c][i]: the promise of getTagNameById(metadata.tags[i])
    tagNames,    \* tagNames[c]: the array Promise.all fills for the tag batch
    corrReq,     \* corrReq[c]: the promise of getCorrespondentNameById
    result       \* result[c]: what the CallTool handler returned or threw

vars == <<env, pc, tool, args, searchReq, searchCalls, content, metadata,
          tagReq, tagNames, corrReq, result>>

---------------------------------------------------------------------------
(* Bounds of the model *)

\* the Search Collaborator answers with 0..MaxMatches matches
MaxMatches == 6
\* max_results is drawn from 0..MaxN (and absent)
MaxN == 2
\* a document has 0..MaxTags tag IDs
MaxTags == 2

\* the concurrent tool calls
Calls == {"c1", "c2"}

---------------------------------------------------------------------------
(* JavaScript values *)

Undefined == [t |-> "undefined"]
Null == [t |-> "null"]
Str(s) == [t |-> "string", v |-> s]
Num(n) == [t |-> "number", v |-> n]
Arr(items) == [t |-> "array", items |-> items]
\* the slot of a result array that Promise.all has not filled yet
Hole == [t |-> "hole"]

\* an Error object, and a TypeError raised by the engine
Err(msg) == [t |-> "Error", message |-> msg]
TypeErr(msg) == [t |-> "Error", message |-> msg]
NullishRead(v, prop) ==
    TypeErr("Cannot read properties of " \o v.t \o " (reading '" \o prop \o "')")

Nullish(v) == v.t \in {"undefined", "null"}

\* ToBoolean
Truthy(v) ==
    CASE v.t \in {"undefined", "null"} -> FALSE
      [] v.t = "number" -> v.v # 0
      [] v.t = "string" -> v.v # ""
      [] OTHER -> TRUE

\* the string a template literal puts for ${v}
ToStr(v) ==
    CASE v.t = "string" -> v.v
      [] v.t = "undefined" -> "undefined"
      [] v.t = "null" -> "null"
      [] OTHER -> "[object]"

Min(a, b) == IF a < b THEN a ELSE b
Max(a, b) == IF a > b THEN a ELSE b

\* Array.prototype.slice(0, end)
Slice0(items, end) ==
    LET len == Len(items)
        k == IF end < 0 THEN Max(len + end, 0) ELSE Min(end, len)
    IN  SubSeq(items, 1, k)

\* String.prototype.substring(0, end), end >= 0
Substring0(s, end) == SubSeq(s, 1, Min(end, Len(s)))

\* JSON.stringify of an object: a property whose value is undefined is left out
JsonObject(r) == [k \in {f \in DOMAIN r : r[f] # Undefined} |-> r[k]]

\* the states of a promise
NoReq == [st |-> "none"]
Pending == [st |-> "pending"]
Fulfilled(v) == [st |-> "fulfilled", val |-> v]
Rejected(e) == [st |-> "rejected", err |-> e]
\* settled after the handler returned: nobody reads the value
Late == [st |-> "late"]

---------------------------------------------------------------------------
(* What a tool call ends with *)

\* a ResponseEnvelope without isError
Success(payload) == [kind |-> "envelope", payload |-> payload]
\* a ResponseEnvelope with isError: true
Failure(payload) == [kind |-> "envelope", payload |-> payload, isError |-> TRUE]
\* an error thrown out of the CallTool handler
Raised(e) == [kind |-> "raised", error |-> e]
NoResult == [kind |-> "none"]

\* catch (error) { ... `Search error: ${error.message}` ... }: reading
\* .message of null or undefined throws inside the catch block
CatchEnvelope(prefix, e) ==
    IF Nullish(e)
    THEN Raised(NullishRead(e, "message"))
    ELSE LET message == IF e.t = "Error" THEN Str(e.message) ELSE Undefined
         IN  Failure(JsonObject([error |-> Str(prefix \o ToStr(message))]))

DisabledMessage ==
    "RAG service is not enabled. Please enable it in your environment configuration."


---------------------------------------------------------------------------
(* The inputs: tool-call requests and the collaborators' answers *)

EnvValues == {Str("true"), Str("false"), Undefined}

DocIds == {123}

\* the arguments of a search_documents call; Undefined: no arguments object
SearchArgs ==
    {Undefined} \cup
    {[t |-> "object", query |-> Str("invoice"), max_results |-> m,
      from_date |-> Undefined, to_date |-> Undefined,
      correspondent |-> Undefined] :
        m \in {Undefined} \cup {Num(n) : n \in 0..MaxN}}

\* the arguments of a get_document call
GetArgs ==
    {Undefined} \cup {[t |-> "object", document_id |-> Num(d)] : d \in DocIds}

\* what a collaborator may reject with: an Error, a value that has no
\* message, null
Rejections == {Err("service down"), Str("boom"), Null}

RECURSIVE Repeat(_, _)
Repeat(s, n) ==
    IF n = 0 THEN ""
    ELSE IF n % 2 = 0 THEN LET half == Repeat(s, n \div 2) IN half \o half
    ELSE s \o Repeat(s, n - 1)

\* the i-th match of the index: with a snippet, with a long text only, or
\* with neither
Match(i) ==
    [t |-> "object", doc_id |-> Num(100 + i), title |-> Str("doc"), score |-> Num(100 - i),
     snippet |-> IF i % 3 = 1 THEN Str("snip") ELSE Undefined,
     text |-> IF i % 3 = 2 THEN Str(Repeat("x", 201)) ELSE Undefined]

Matches(k) == [i \in 1..k |-> Match(i)]

\* ragService.search: any number of matches, something that is no array, an
\* array with a null entry, or a rejection
SearchAnswers ==
    {Fulfilled(Arr(Matches(k))) : k \in 0..MaxMatches} \cup
    {Fulfilled(Undefined), Fulfilled(Arr(<<Null>>))} \cup
    {Rejected(e) : e \in Rejections}

\* paperlessService.getDocumentContent
ContentAnswers(id) ==
    {Fulfilled(Str("content of " \o (IF id.v = 123 THEN "123" ELSE "another")))}
    \cup {Rejected(e) : e \in Rejections}

\* the tag IDs of a document with k tags, not in ascending order of ID
TagIds(k) == [i \in 1..k |-> Num(k + 1 - i)]

\* paperlessService.getDocument
MetadataAnswers(id) ==
    {Fulfilled([t |-> "object", title |-> Str("Report"), tags |-> tg,
                correspondent |-> co, created |-> Str("2024-03-15"),
                document_type |-> Null, added |-> Str("2024-03-16"),
                modified |-> Undefined]) :
        tg \in {Undefined} \cup {Arr(TagIds(k)) : k \in 0..MaxTags},
        co \in {Null, Num(7)}}
    \cup {Rejected(e) : e \in Rejections}

TagName(id) == Str(IF id.v = 1 THEN "tag-one" ELSE IF id.v = 2 THEN "tag-two" ELSE "tag-more")

\* paperlessService.getTagNameById: the name, null, or a rejection
TagAnswers(id) == {Fulfilled(TagName(id)), Fulfilled(Null), Rejected(Err("no tag"))}

\* paperlessService.getCorrespondentNameById: {name}, null, or a rejection
CorrespondentAnswers ==
    {Fulfilled([t |-> "object", name |-> Str("Acme Corp")]),
     Fulfilled(Null),
     Rejected(Null)}

---------------------------------------------------------------------------
(* The frame of one tool call: the handler's arguments, its promises, its  *)
(* local variables and where it is suspended                               *)

\* a faulty variant: tagNames is a field of the server object, shared by all calls
FrameSharedTagNames(c) ==
    [pc |-> pc[c], tool |-> tool[c], args |-> args[c],
     searchReq |-> searchReq[c], searchCalls |-> searchCalls[c],
     content |-> content[c], metadata |-> metadata[c],
     tagReq |-> tagReq[c],
     tagNames |-> LET busy == {d \in Calls : pc[d] = "awaitTags"}
                  IN  IF busy = {} THEN tagNames[c]
                      ELSE tagNames[CHOOSE d \in busy : TRUE],
     corrReq |-> corrReq[c], result |-> result[c]]

Frame(c) ==
    [pc |-> pc[c], tool |-> tool[c], args |-> args[c],
     searchReq |-> searchReq[c], searchCalls |-> searchCalls[c],
     content |-> content[c], metadata |-> metadata[c],
     tagReq |-> tagReq[c], tagNames |-> tagNames[c],
     corrReq |-> corrReq[c], result |-> result[c]]

IdleFrame ==
    [pc |-> "idle", tool |-> "", args |-> Undefined,
     searchReq |-> NoReq, searchCalls |-> 0,
     content |-> NoReq, metadata |-> NoReq,
     tagReq |-> <<>>, tagNames |-> <<>>,
     corrReq |-> NoReq, result |-> NoResult]

\* call c goes on with frame f; nothing of another call changes
Resume(c, f) ==
    /\ pc' = [pc EXCEPT ![c] = f.pc]
    /\ tool' = [tool EXCEPT ![c] = f.tool]
    /\ args' = [args EXCEPT ![c] = f.args]
    /\ searchReq' = [searchReq EXCEPT ![c] = f.searchReq]
    /\ searchCalls' = [searchCalls EXCEPT ![c] = f.searchCalls]
    /\ content' = [content EXCEPT ![c] = f.content]
    /\ metadata' = [metadata EXCEPT ![c] = f.metadata]
    /\ tagReq' = [tagReq EXCEPT ![c] = f.tagReq]
    /\ tagNames' = [tagNames EXCEPT ![c] = f.tagNames]
    /\ corrReq' = [corrReq EXCEPT ![c] = f.corrReq]
    /\ result' = [result EXCEPT ![c] = f.result]
    /\ UNCHANGED env

\* the handler returns or throws res
Returned(f, res) == [f EXCEPT !.pc = "done", !.result = res]

---------------------------------------------------------------------------
(* searchDocuments *)

DefaultMaxResults == 5
SnippetLength == 200

SearchErrorPrefix == "Search error: "

\* a faulty variant: if (!process.env.RAG_SERVICE_ENABLED)
GateClosedWhenFalsy(e) == ~Truthy(e)

\* process.env.RAG_SERVICE_ENABLED !== 'true'
GateClosed(e) == e # Str("true")

\* args.max_results || 5
Limit(a) == IF Truthy(a.max_results) THEN a.max_results.v ELSE DefaultMaxResults

\* doc.snippet || doc.text?.substring(0, 200)
Snippet(doc) ==
    IF Truthy(doc.snippet) THEN doc.snippet
    ELSE IF Nullish(doc.text) THEN Undefined
    ELSE Str(Substring0(doc.text.v, SnippetLength))

\* doc => ({doc_id, title, score, snippet}), as JSON.stringify writes it
Project(doc) ==
    JsonObject([doc_id |-> doc.doc_id, title |-> doc.title,
                score |-> doc.score, snippet |-> Snippet(doc)])

\* results.slice(0, args.max_results || 5)
LimitedResults(a, items) == Slice0(items, Limit(a))

\* the handler from the settling of ragService.search to its return
SearchReturn(a, r) ==
    IF r.st = "rejected" THEN CatchEnvelope(SearchErrorPrefix, r.err)
    ELSE IF Nullish(r.val)
    THEN CatchEnvelope(SearchErrorPrefix, NullishRead(r.val, "slice"))
    ELSE LET limited == LimitedResults(a, r.val.items)
         IN  IF \E i \in 1..Len(limited) : Nullish(limited[i])
             THEN CatchEnvelope(SearchErrorPrefix, NullishRead(Null, "doc_id"))
             ELSE Success(JsonObject(
                      [query |-> a.query,
                       total_found |-> Num(Len(r.val.items)),
                       results |-> Arr([i \in 1..Len(limited) |->
                                            Project(limited[i])])]))

\* the handler from its start to its first await, or to its return
SearchStart(f, e) ==
    IF GateClosed(e)
    THEN Returned(f, Failure(JsonObject([error |-> Str(DisabledMessage)])))
    ELSE IF Nullish(f.args)
    THEN Returned(f, CatchEnvelope(SearchErrorPrefix, NullishRead(f.args, "query")))
    ELSE [f EXCEPT !.searchReq = Pending, !.searchCalls = @ + 1,
                   !.pc = "awaitSearch"]

---------------------------------------------------------------------------
(* getDocument *)

RetrievalErrorPrefix == "Document retrieval error: "

\* the success envelope of getDocument
DocumentEnvelope(f, correspondentName) ==
    LET m == f.metadata.val
    IN  Success(JsonObject(
            [id |-> f.args.document_id, title |-> m.title,
             content |-> f.content.val, tags |-> Arr(f.tagNames),
             correspondent |-> correspondentName, created |-> m.created,
             document_type |-> m.document_type, added |-> m.added,
             modified |-> m.modified]))

\* if (metadata.correspondent) { ... await getCorrespondentNameById ... }
ResolveCorrespondent(f) ==
    IF Truthy(f.metadata.val.correspondent)
    THEN [f EXCEPT !.corrReq = Pending, !.pc = "awaitCorr"]
    ELSE Returned(f, DocumentEnvelope(f, Null))

\* if (metadata.tags && metadata.tags.length > 0) { tagNames = await
\* Promise.all(metadata.tags.map(...)) ... }: every request of the batch is
\* issued before the await
ResolveTags(f) ==
    LET tags == f.metadata.val.tags
    IN  IF Truthy(tags) /\ Len(tags.items) > 0
        THEN [f EXCEPT !.tagReq = [i \in 1..Len(tags.items) |-> Pending],
                       !.tagNames = [i \in 1..Len(tags.items) |-> Hole],
                       !.pc = "awaitTags"]
        ELSE ResolveCorrespondent([f EXCEPT !.tagNames = <<>>])

\* the handler from its start to the await of Promise.all([content, metadata])
GetStart(f) ==
    IF Nullish(f.args)
    THEN Returned(f, CatchEnvelope(RetrievalErrorPrefix,
                                   NullishRead(f.args, "document_id")))
    ELSE [f EXCEPT !.content = Pending, !.metadata = Pending,
                   !.pc = "awaitPrimary"]

\* Promise.all([content, metadata]) after one of the two settled: it rejects
\* with the first rejection, and is fulfilled once both are
PrimarySettled(f) ==
    IF f.content.st = "rejected"
    THEN Returned(f, CatchEnvelope(RetrievalErrorPrefix, f.content.err))
    ELSE IF f.metadata.st = "rejected"
    THEN Returned(f, CatchEnvelope(RetrievalErrorPrefix, f.metadata.err))
    ELSE IF f.content.st = "fulfilled" /\ f.metadata.st = "fulfilled"
    THEN ResolveTags(f)
    ELSE f

\* a faulty variant: the values are collected in the order in which they arrive
PlaceInArrivalOrder(names, i, v) ==
    LET first == CHOOSE j \in 1..Len(names) :
                     /\ names[j] = Hole
                     /\ \A k \in 1..(j - 1) : names[k] # Hole
    IN  [names EXCEPT ![first] = v]

\* Promise.all puts the value of the i-th promise at index i
Place(names, i, v) == [names EXCEPT ![i] = v]

\* tagNames.filter(name => name !== null)
RECURSIVE FilterNotNull(_)
FilterNotNull(names) ==
    IF names = <<>> THEN <<>>
    ELSE IF Head(names) = Null THEN FilterNotNull(Tail(names))
    ELSE <<Head(names)>> \o FilterNotNull(Tail(names))

\* a faulty variant: Promise.race in place of Promise.all
TagBatchFirstSettled(reqs) == \E i \in 1..Len(reqs) : reqs[i].st # "pending"

\* Promise.all of the tag batch is fulfilled once every promise of it is
\* (none can reject: the mapped function catches)
TagBatchComplete(reqs) == \A i \in 1..Len(reqs) : reqs[i].st # "pending"

\* try { return await getTagNameById(tagId) } catch { return null }
TagValue(r) == IF r.st = "rejected" THEN Null ELSE r.val

\* the i-th tag resolution settled with r
TagSettled(f, i, r) ==
    LET g == [f EXCEPT !.tagReq[i] = r,
                       !.tagNames = Place(@, i, TagValue(r))]
    IN  IF TagBatchComplete(g.tagReq)
        THEN ResolveCorrespondent([g EXCEPT !.tagNames = FilterNotNull(@)])
        ELSE g

\* try { correspondentName = correspondent?.name || null } catch { }
CorrespondentName(r) ==
    IF r.st = "rejected" THEN Null
    ELSE LET name == IF Nullish(r.val) THEN Undefined ELSE r.val.name
         IN  IF Truthy(name) THEN name ELSE Null

\* a faulty variant: no try/catch around the correspondent resolution
CorrespondentSettledUnguarded(f, r) ==
    LET g == [f EXCEPT !.corrReq = r]
    IN  IF r.st = "rejected"
        THEN Returned(g, CatchEnvelope(RetrievalErrorPrefix, r.err))
        ELSE IF Nullish(r.val)
        THEN Returned(g, CatchEnvelope(RetrievalErrorPrefix,
                                       NullishRead(r.val, "name")))
        ELSE Returned(g, DocumentEnvelope(g, r.val.name))

\* the correspondent resolution settled with r
CorrespondentSettled(f, r) ==
    LET g == [f EXCEPT !.corrReq = r]
    IN  Returned(g, DocumentEnvelope(g, CorrespondentName(r)))

---------------------------------------------------------------------------
(* The actions: the dispatcher of setupHandlers and the handlers' steps *)

\* default: throw new Error(`Unknown tool: ${name}`)
CallUnknownTool(c) ==
    /\ pc[c] = "idle"
    /\ \E name \in {"delete_document"}, a \in GetArgs :
         Resume(c, Returned([Frame(c) EXCEPT !.tool = name, !.args = a],
                            Raised(Err("Unknown tool: " \o name))))

\* case "search_documents": return await this.searchDocuments(args)
CallSearchDocuments(c) ==
    /\ pc[c] = "idle"
    /\ \E a \in SearchArgs :
         Resume(c, SearchStart([Frame(c) EXCEPT !.tool = "search_documents",
                                                !.args = a], env))

\* ragService.search settles
SearchSettles(c) ==
    /\ pc[c] = "awaitSearch"
    /\ \E r \in SearchAnswers :
         Resume(c, Returned([Frame(c) EXCEPT !.searchReq = r],
                            SearchReturn(args[c], r)))

\* case "get_document": return await this.getDocument(args)
CallGetDocument(c) ==
    /\ pc[c] = "idle"
    /\ \E a \in GetArgs :
         Resume(c, GetStart([Frame(c) EXCEPT !.tool = "get_document",
                                             !.args = a]))

\* paperlessService.getDocumentContent settles
ContentSettles(c) ==
    /\ content[c] = Pending
    /\ \E r \in ContentAnswers(args[c].document_id) :
         IF pc[c] = "awaitPrimary"
         THEN Resume(c, PrimarySettled([Frame(c) EXCEPT !.content = r]))
         ELSE Resume(c, [Frame(c) EXCEPT !.content = Late])

\* paperlessService.getDocument settles
MetadataSettles(c) ==
    /\ metadata[c] = Pending
    /\ \E r \in MetadataAnswers(args[c].document_id) :
         IF pc[c] = "awaitPrimary"
         THEN Resume(c, PrimarySettled([Frame(c) EXCEPT !.metadata = r]))
         ELSE Resume(c, [Frame(c) EXCEPT !.metadata = Late])

\* one paperlessService.getTagNameById of the batch settles
TagSettles(c) ==
    \E i \in 1..Len(tagReq[c]) :
        /\ tagReq[c][i] = Pending
        /\ \E r \in TagAnswers(metadata[c].val.tags.items[i]) :
             IF pc[c] = "awaitTags"
             THEN Resume(c, TagSettled(Frame(c), i, r))
             ELSE Resume(c, [Frame(c) EXCEPT !.tagReq[i] = Late])

\* paperlessService.getCorrespondentNameById settles
CorrespondentSettles(c) ==
    /\ pc[c] = "awaitCorr"
    /\ \E r \in CorrespondentAnswers :
         Resume(c, CorrespondentSettled(Frame(c), r))

Init ==
    /\ env \in EnvValues
    /\ pc = [c \in Calls |-> IdleFrame.pc]
    /\ tool = [c \in Calls |-> IdleFrame.tool]
    /\ args = [c \in Calls |-> IdleFrame.args]
    /\ searchReq = [c \in Calls |-> IdleFrame.searchReq]
    /\ searchCalls = [c \in Calls |-> IdleFrame.searchCalls]
    /\ content = [c \in Calls |-> IdleFrame.content]
    /\ metadata = [c \in Calls |-> IdleFrame.metadata]
    /\ tagReq = [c \in Calls |-> IdleFrame.tagReq]
    /\ tagNames = [c \in Calls |-> IdleFrame.tagNames]
    /\ corrReq = [c \in Calls |-> IdleFrame.corrReq]
    /\ result = [c \in Calls |-> IdleFrame.result]

Next ==
    \E c \in Calls :
        \/ CallUnknownTool(c)
        \/ CallSearchDocuments(c)
        \/ SearchSettles(c)
        \/ CallGetDocument(c)
        \/ ContentSettles(c)
        \/ MetadataSettles(c)
        \/ TagSettles(c)
        \/ CorrespondentSettles(c)

Spec == Init /\ [][Next]_vars

---------------------------------------------------------------------------
(* Vocabulary of the properties *)

Done(c) == pc[c] = "done"
IsSearch(c) == tool[c] = "search_documents"
IsGet(c) == tool[c] = "get_document"

IsEnvelope(r) == r.kind = "envelope"
IsError(r) == IsEnvelope(r) /\ "isError" \in DOMAIN r /\ r.isError
IsSuccess(r) == IsEnvelope(r) /\ "isError" \notin DOMAIN r

StartsWith(s, prefix) ==
    Len(s) >= Len(prefix) /\ SubSeq(s, 1, Len(prefix)) = prefix

\* an error envelope whose payload is only {error: prefix + ...}
IsErrorOnly(r, prefix) ==
    /\ IsError(r)
    /\ DOMAIN r.payload = {"error"}
    /\ r.payload.error.t = "string"
    /\ StartsWith(r.payload.error.v, prefix)

Settled(p) == p.st \in {"fulfilled", "rejected"}

\* the collaborator requests of call c, and the promise of each
Requests(c) ==
    {<<"search", 0>>, <<"content", 0>>, <<"metadata", 0>>,
     <<"correspondent", 0>>}
    \cup {<<"tag", i>> : i \in 1..Len(tagReq[c])}

PromiseOf(c, q) ==
    CASE q[1] = "search" -> searchReq[c]
      [] q[1] = "content" -> content[c]
      [] q[1] = "metadata" -> metadata[c]
      [] q[1] = "correspondent" -> corrReq[c]
      [] OTHER -> tagReq[c][q[2]]

\* the requests call c issued that have not settled yet
Outstanding(c) == {q \in Requests(c) : PromiseOf(c, q) = Pending}

\* both primary fetches of call c succeeded
PrimaryFetched(c) ==
    IsGet(c) /\ content[c].st = "fulfilled" /\ metadata[c].st = "fulfilled"

\* the tag IDs of the metadata call c fetched
TagIdsOf(c) ==
    LET tags == metadata[c].val.tags
    IN  IF tags.t = "array" THEN tags.items ELSE <<>>

\* the i-th tag resolution answered with a name
Resolved(p) == p.st = "fulfilled" /\ p.val # Null

\* the names the collaborator answered, in the order of the tag IDs
SurvivingNames(c) ==
    LET idx == SelectSeq([i \in 1..Len(tagReq[c]) |-> i],
                         LAMBDA i : Resolved(tagReq[c][i]))
    IN  [j \in 1..Len(idx) |-> tagReq[c][idx[j]].val]

---------------------------------------------------------------------------
(* The properties *)

\* C1: while RAG_SERVICE_ENABLED is not the string 'true', every
\* searchDocuments call, whatever its arguments (a missing arguments object
\* included), has returned the "RAG service is not enabled" error envelope
\* with isError true, and ragService.search was never invoked.
C1_GateClosedNeverSearches ==
    env # Str("true") =>
        \A c \in Calls :
            /\ searchCalls[c] = 0
            /\ searchReq[c] = NoReq
            /\ IsSearch(c) =>
                 /\ Done(c)
                 /\ result[c] = Failure([error |-> Str(DisabledMessage)])

\* a search call with arguments was made while the variable holds a string
\* other than 'true', and another one without arguments
C1_Witness ==
    /\ env = Str("false")
    /\ \E c, d \in Calls :
         /\ IsSearch(c) /\ Done(c) /\ args[c] # Undefined
         /\ IsSearch(d) /\ Done(d) /\ args[d] = Undefined

\* C2: every successful searchDocuments call with max_results = N, N >= 0
\* (N = 0 included), returns at most N results, and total_found is the
\* length of the collaborator's untruncated sequence.
C2_AtMostMaxResults ==
    \A c \in Calls :
        (/\ IsSearch(c) /\ Done(c) /\ IsSuccess(result[c])
         /\ args[c].max_results.t = "number"
         /\ args[c].max_results.v >= 0)
        => /\ Len(result[c].payload.results.items) <= args[c].max_results.v
           /\ result[c].payload.total_found =
                  Num(Len(searchReq[c].val.items))

\* C3: every searchDocuments and getDocument call that has completed
\* returned a ResponseEnvelope: nothing is thrown out of the handler, whatever
\* the collaborator rejected with and whatever the arguments were.
C3_HandlersAlwaysReturnEnvelope ==
    \A c \in Calls :
        (Done(c) /\ (IsSearch(c) \/ IsGet(c))) => IsEnvelope(result[c])

\* C4: when the content fetch or the metadata fetch of a getDocument call
\* rejected, the call returned an error envelope whose payload is only
\* {error: "Document retrieval error: ..."}, and issued no tag or
\* correspondent resolution.
C4_PrimaryRejectionGivesErrorOnly ==
    \A c \in Calls :
        (IsGet(c) /\ (content[c].st = "rejected" \/ metadata[c].st = "rejected"))
        => /\ Done(c)
           /\ IsErrorOnly(result[c], RetrievalErrorPrefix)
           /\ tagReq[c] = <<>>
           /\ corrReq[c] = NoReq

\* C5: a getDocument call whose primary fetches succeeded returns a success
\* envelope whose tags are the names of exactly the tag IDs whose resolution
\* answered a name, in the order of the metadata's tag IDs whatever the order
\* in which the resolutions settled; no tag IDs give an empty sequence.
C5_TagsInOrderFailedDropped ==
    \A c \in Calls :
        (PrimaryFetched(c) /\ Done(c))
        => /\ IsSuccess(result[c])
           /\ "tags" \in DOMAIN result[c].payload
           /\ result[c].payload.tags = Arr(SurvivingNames(c))
           /\ Len(tagReq[c]) = Len(TagIdsOf(c))
           /\ \A i \in 1..Len(tagReq[c]) :
                  Resolved(tagReq[c][i]) =>
                      tagReq[c][i].val = TagName(TagIdsOf(c)[i])
           /\ TagIdsOf(c) = <<>> => result[c].payload.tags = Arr(<<>>)

\* of several tag resolutions exactly one failed, and it is not the last
\* one: the output is one shorter and the call succeeded
C5_Witness ==
    \E c \in Calls :
        /\ PrimaryFetched(c) /\ Done(c)
        /\ Len(tagReq[c]) >= 2
        /\ tagReq[c][1].st = "rejected"
        /\ \A i \in 2..Len(tagReq[c]) : Resolved(tagReq[c][i])
        /\ Len(result[c].payload.tags.items) = Len(tagReq[c]) - 1

\* the correspondent resolution of call c failed or was not needed
NoCorrespondent(c) ==
    \/ ~Truthy(metadata[c].val.correspondent)
    \/ corrReq[c].st = "rejected"
    \/ corrReq[c] = Fulfilled(Null)

\* C6: a getDocument call whose primary fetches succeeded and whose metadata
\* has no correspondent ID, or whose correspondent resolution threw or
\* answered null, returns a success envelope with correspondent null and the
\* other document fields and the tags as they would be otherwise.
C6_CorrespondentFailureGivesNull ==
    \A c \in Calls :
        (PrimaryFetched(c) /\ Done(c) /\ NoCorrespondent(c))
        => /\ IsSuccess(result[c])
           /\ result[c].payload =
                  JsonObject([id |-> args[c].document_id,
                              title |-> metadata[c].val.title,
                              content |-> content[c].val,
                              tags |-> Arr(SurvivingNames(c)),
                              correspondent |-> Null,
                              created |-> metadata[c].val.created,
                              document_type |-> metadata[c].val.document_type,
                              added |-> metadata[c].val.added,
                              modified |-> metadata[c].val.modified])

\* the correspondent resolution of a document with tags threw
C6_Witness ==
    \E c \in Calls :
        /\ PrimaryFetched(c) /\ Done(c)
        /\ corrReq[c].st = "rejected"
        /\ Len(result[c].payload.tags.items) >= 1

\* C7: a tool call with an unknown name throws an error that names the tool,
\* with no collaborator invoked, and it is the only tool call that ends in a
\* thrown error instead of an envelope.
C7_OnlyUnknownToolRaises ==
    \A c \in Calls :
        Done(c) =>
            /\ (~IsSearch(c) /\ ~IsGet(c)) =>
                   /\ result[c] = Raised(Err("Unknown tool: " \o tool[c]))
                   /\ \A q \in Requests(c) : PromiseOf(c, q) = NoReq
            /\ result[c].kind = "raised" => (~IsSearch(c) /\ ~IsGet(c))

\* C8: every searchDocuments call that carries a SearchQuery and is made
\* while the gate is enabled invokes ragService.search exactly once, and if
\* that invocation or the projection of its results threw, the call returned
\* an error envelope whose payload is only {error: "Search error: ..."}.
C8_SearchOnceAndErrorsEnveloped ==
    \A c \in Calls :
        (IsSearch(c) /\ env = Str("true") /\ args[c] # Undefined)
        => /\ searchCalls[c] = 1
           /\ Done(c) =>
                  \/ IsSuccess(result[c])
                  \/ IsErrorOnly(result[c], SearchErrorPrefix)

\* the tool call of c run alone up to its first suspension: the same tool,
\* arguments and flag
AloneStarted(c) ==
    LET f == [IdleFrame EXCEPT !.tool = tool[c], !.args = args[c]]
    IN  IF IsSearch(c) THEN SearchStart(f, env)
        ELSE IF IsGet(c) THEN GetStart(f)
        ELSE Returned(f, Raised(Err("Unknown tool: " \o tool[c])))

\* ... then given the answers call c got to its two primary fetches
AlonePrimary(c) ==
    LET f == AloneStarted(c)
        g == IF f.pc = "awaitPrimary" /\ Settled(content[c])
             THEN PrimarySettled([f EXCEPT !.content = content[c]])
             ELSE f
    IN  IF g.pc = "awaitPrimary" /\ Settled(metadata[c])
        THEN PrimarySettled([g EXCEPT !.metadata = metadata[c]])
        ELSE g

\* ... then the answers call c got to its tag resolutions, in the order of
\* the tag IDs
RECURSIVE AloneTags(_, _, _)
AloneTags(f, c, i) ==
    IF f.pc = "awaitTags" /\ i <= Len(tagReq[c]) /\ Settled(tagReq[c][i])
    THEN AloneTags(TagSettled(f, i, tagReq[c][i]), c, i + 1)
    ELSE f

\* the outcome of the call of c when it runs alone and the collaborators
\* answer its requests as they answered them in this run
AloneResult(c) ==
    LET f == AloneTags(AlonePrimary(c), c, 1)
    IN  IF f.pc = "awaitSearch" /\ Settled(searchReq[c])
        THEN SearchReturn(f.args, searchReq[c])
        ELSE IF f.pc = "awaitCorr" /\ Settled(corrReq[c])
        THEN CorrespondentSettled(f, corrReq[c]).result
        ELSE f.result

\* C9: in every interleaving of concurrent tool calls, what a completed call
\* returned is what the same call returns when it runs alone with the same
\* flag and the same collaborator answers to its own requests; so two calls
\* with the same arguments and the same answers end alike.
C9_CallsDoNotInterfere ==
    /\ \A c \in Calls : Done(c) => result[c] = AloneResult(c)
    /\ \A c, d \in Calls :
         (/\ Done(c) /\ Done(d)
          /\ tool[c] = tool[d] /\ args[c] = args[d]
          /\ \A q \in Requests(c) \cup Requests(d) :
                 /\ q \in Requests(c) \cap Requests(d)
                 /\ PromiseOf(c, q) = PromiseOf(d, q))
         => result[c] = result[d]

\* a getDocument call with several tags returned while another call with
\* other tag answers was suspended in its tag batch
C9_Witness ==
    \E c, d \in Calls :
        /\ Done(c) /\ IsGet(c) /\ IsSuccess(result[c])
        /\ Len(tagReq[c]) >= 2
        /\ pc[d] = "awaitTags"
        /\ \E i \in 1..Len(tagReq[d]) :
               Settled(tagReq[d][i]) /\ ~Resolved(tagReq[d][i])

\* C10 as stated: getDocument issues the content and the metadata request
\* before awaiting either and waits for every batch it issued, so that when
\* it returns an envelope, success or error, none of its requests is still
\* outstanding.
C10_NothingOutstandingAtReturn ==
    \A c \in Calls :
        /\ (content[c] = NoReq) <=> (metadata[c] = NoReq)
        /\ (IsGet(c) /\ Done(c) /\ IsEnvelope(result[c])) => Outstanding(c) = {}

\* C10 as amended: the two primary requests are issued together; the tag
\* batch and the correspondent resolution start only after both primary
\* fetches succeeded and are awaited to the end; a success envelope is
\* returned with no request outstanding, and a call that ended otherwise has
\* at most the other primary request outstanding.
C10_FanOutFanIn ==
    \A c \in Calls :
        /\ (content[c] = NoReq) <=> (metadata[c] = NoReq)
        /\ pc[c] = "awaitTags" =>
               /\ PrimaryFetched(c)
               /\ Outstanding(c) \subseteq {<<"tag", i>> : i \in 1..Len(tagReq[c])}
        /\ pc[c] = "awaitCorr" =>
               /\ PrimaryFetched(c)
               /\ Outstanding(c) = {<<"correspondent", 0>>}
        /\ (Done(c) /\ IsSuccess(result[c])) => Outstanding(c) = {}
        /\ Done(c) =>
               /\ Outstanding(c) \subseteq {<<"content", 0>>, <<"metadata", 0>>}
               /\ Cardinality(Outstanding(c)) <= 1
               /\ Outstanding(c) # {} =>
                      (content[c].st = "rejected" \/ metadata[c].st = "rejected")

\* one call returned a document after its tag batch and its correspondent
\* resolution settled; another returned an error envelope while its metadata
\* request was outstanding
C10_Witness ==
    \E c, d \in Calls :
        /\ Done(c) /\ IsSuccess(result[c]) /\ IsGet(c)
        /\ Len(tagReq[c]) >= 2 /\ Settled(corrReq[c])
        /\ Done(d) /\ IsError(result[d])
        /\ Outstanding(d) = {<<"metadata", 0>>}

===========================================================================
